---- MODULE Spec2Model ----
(***************************************************************************)
(* Model of the file revision ledger of DEEPWELL                           *)
(* (deepwell/src/services/file_revision/service.rs).                       *)
(*                                                                         *)
(* The database table `file_revision` is the sequence `revisions` (one     *)
(* record per row, in insertion order, revision_id = serial primary key).  *)
(* The outdater's effects are the sequence `outdated` of calls made.       *)
(* Every service method is an operator over a database value               *)
(* [revisions, outdated] that returns the database as the method left it   *)
(* inside its transaction together with the method's result; the actions   *)
(* run a method inside the caller's transaction scope.                     *)
(***************************************************************************)
EXTENDS Integers, Sequences, FiniteSets, TLC

\* ---------------------------------------------------------------------------
\* Bounds

\* Rows the table may hold before revision-creating requests stop, in the
\* lifecycle specification and in the specification of the diff.
MaxRevs == 3
MaxDiffRevs == 2

\* Rows the table may hold in the specification of the requests whose
\* `previous` is any stored row.
MaxPrevRevs == 2

\* Rows the table may hold in the specification of the queries.
MaxQueryRevs == 3

\* Rows the table may hold in the specification of two files.
MaxTwoRevs == 3

\* Longest texts given to typography::substitute: over dots and spaces, over
\* dots, spaces and a letter, and over the characters of the quotes.
MaxDotsLen == 11
MaxTextLen == 7
MaxQuoteLen == 4
\* Longest text of dots, U+00E9 (two bytes) and U+3042 (three bytes): two groups of
\* dots, each after such a character.
MaxWideLen == 8
\* Longest text of quote characters on which the replacer loops are stepped:
\* long enough for a double quote with content and for two replacements in
\* one loop.
MaxStepLen == 5

\* ---------------------------------------------------------------------------
\* Value domains of the requests

Sites == {1}
Pages == {10, 11}
Files == {5}
Users == {7}
Comments == {"c"}

\* A string is the sequence of its characters; the characters outside ASCII
\* are named by their code points.

\* The names of the code points below U+0080 and below U+0800.
HexDigits == {"0", "1", "2", "3", "4", "5", "6", "7", "8", "9",
              "a", "b", "c", "d", "e", "f", "A", "B", "C", "D", "E", "F"}
OneByteNames ==
    {"u00" \o h \o l : h \in {"0", "1", "2", "3", "4", "5", "6", "7"},
                       l \in HexDigits}
TwoByteNames ==
    {"u0" \o h \o m \o l : h \in {"0", "1", "2", "3", "4", "5", "6", "7"},
                            m \in HexDigits, l \in HexDigits} \ OneByteNames

\* char::len_utf8: a character written as itself is ASCII, a name of four
\* hexadecimal digits is a code point up to U+FFFF, a longer one is above.
ByteLen(c) ==
    IF Len(c) = 1 \/ c \in OneByteNames THEN 1
    ELSE IF c \in TwoByteNames THEN 2
    ELSE IF Len(c) = 5 THEN 3
    ELSE 4

\* str::len: the number of bytes, counted by the length of the characters.
StrLen(t) ==
    LET count(n) == Cardinality({i \in 1..Len(t) : ByteLen(t[i]) = n})
    IN  count(1) + 2 * count(2) + 3 * count(3) + 4 * count(4)

\* A file name of 256 bytes, the shortest one `create` rejects as too long.
LongName == [i \in 1..256 |-> "a"]
\* A file name of 128 characters of two bytes, 256 bytes as well.
WideName == [i \in 1..128 |-> "u00e9"]

GoodNames == {<<"a", ".", "p", "n", "g">>, <<"b", ".", "p", "n", "g">>}

BlobPng == [s3_hash |-> "h1", size_hint |-> 100, mime_hint |-> "image/png"]
\* Differs from BlobPng in the mime hint only.
BlobJpg == [s3_hash |-> "h1", size_hint |-> 100, mime_hint |-> "image/jpeg"]
\* A blob whose mime hint is empty.
BlobNoMime == [s3_hash |-> "h2", size_hint |-> 100, mime_hint |-> ""]

HiddenLists == {<<>>, <<"name">>}

\* Points where a collaborator can fail a revision-creating method.
Faults == {"none", "slug", "outdate", "insert"}

\* ---------------------------------------------------------------------------
\* ProvidedValue<T>

Unset == <<"Unset">>
SetTo(v) == <<"Set", v>>
IsSet(p) == p[1] = "Set"
ValueOf(p) == p[2]
Provided(S) == {Unset} \cup {SetTo(v) : v \in S}

\* ---------------------------------------------------------------------------
\* Results

Ok(out) == [status |-> "Ok", error |-> "", out |-> out]
OkNone == [status |-> "OkNone", error |-> "", out |-> <<>>]
Err(e) == [status |-> "Err", error |-> e, out |-> <<>>]
Panic(msg) == [status |-> "Panic", error |-> msg, out |-> <<>>]

Ret(db, result) == [db |-> db, result |-> result]

\* ---------------------------------------------------------------------------
\* Collaborators

PageSlugs == (10 :> "page-ten") @@ (11 :> "page-eleven")

\* FileRevisionService::get_page_slug
get_page_slug(site_id, page_id, fault) ==
    IF fault = "slug" THEN Err("PageNotFound") ELSE Ok(PageSlugs[page_id])

\* OutdateService::process_page_edit / process_page_displace as called here:
\* the call is recorded in the transaction.
process_page(db, kind, site_id, page_id, slug) ==
    [db EXCEPT !.outdated = Append(@,
        [kind |-> kind, site_id |-> site_id, page_id |-> page_id, slug |-> slug])]

\* ActiveModel::insert: the row gets the next serial revision_id.
insert(db, model) ==
    LET row == [model EXCEPT !.revision_id = Len(db.revisions) + 1]
    IN  [db EXCEPT !.revisions = Append(@, row)]

\* ---------------------------------------------------------------------------
\* The service

ALL_CHANGES == <<"page", "name", "blob", "mime", "licensing">>

I32_MAX == 2147483647

\* next_revision_number that forgets to add one.
next_revision_number_NoIncrement(previous, page_id, file_id) ==
    IF previous.file_id # file_id
    THEN {[panic |-> TRUE, msg |-> "Previous revision has an inconsistent file ID", value |-> 0]}
    ELSE IF previous.page_id # page_id
    THEN {[panic |-> TRUE, msg |-> "Previous revision has an inconsistent page ID", value |-> 0]}
    ELSE {[panic |-> FALSE, msg |-> "", value |-> previous.revision_number]}

\* next_revision_number: the outcomes a build of the service can give. The
\* sum is an i32: past i32::MAX a build with overflow checks panics and a
\* build without them wraps around.
next_revision_number(previous, page_id, file_id) ==
    IF previous.file_id # file_id
    THEN {[panic |-> TRUE, msg |-> "Previous revision has an inconsistent file ID", value |-> 0]}
    ELSE IF previous.page_id # page_id
    THEN {[panic |-> TRUE, msg |-> "Previous revision has an inconsistent page ID", value |-> 0]}
    ELSE IF previous.revision_number = I32_MAX
    THEN {[panic |-> TRUE, msg |-> "attempt to add with overflow", value |-> 0],
          [panic |-> FALSE, msg |-> "", value |-> -I32_MAX - 1]}
    ELSE {[panic |-> FALSE, msg |-> "", value |-> previous.revision_number + 1]}

\* MergeFields that moves the file to the new page without listing "page".
MergeFields_SilentPage(previous, page_id, body) ==
    LET pageCh == IsSet(body.page_id) /\ page_id # ValueOf(body.page_id)
        nameCh == IsSet(body.name) /\ previous.name # ValueOf(body.name)
        blobCh == /\ IsSet(body.blob)
                  /\ \/ previous.s3_hash # ValueOf(body.blob).s3_hash
                     \/ previous.size_hint # ValueOf(body.blob).size_hint
                     \/ previous.mime_hint # ValueOf(body.blob).mime_hint
        licCh  == IsSet(body.licensing) /\ previous.licensing # ValueOf(body.licensing)
    IN  [page_id   |-> IF pageCh THEN ValueOf(body.page_id) ELSE page_id,
         name      |-> IF nameCh THEN ValueOf(body.name) ELSE previous.name,
         s3_hash   |-> IF blobCh THEN ValueOf(body.blob).s3_hash ELSE previous.s3_hash,
         size_hint |-> IF blobCh THEN ValueOf(body.blob).size_hint ELSE previous.size_hint,
         mime_hint |-> IF blobCh THEN ValueOf(body.blob).mime_hint ELSE previous.mime_hint,
         licensing |-> IF licCh THEN ValueOf(body.licensing) ELSE previous.licensing,
         changes   |-> (IF nameCh THEN <<"name">> ELSE <<>>)
                       \o (IF blobCh THEN <<"blob">> ELSE <<>>)
                       \o (IF licCh THEN <<"licensing">> ELSE <<>>)]

\* MergeFields that marks the name changed whenever one is provided.
MergeFields_NameAlways(previous, page_id, body) ==
    LET pageCh == IsSet(body.page_id) /\ page_id # ValueOf(body.page_id)
        nameCh == IsSet(body.name)
        blobCh == /\ IsSet(body.blob)
                  /\ \/ previous.s3_hash # ValueOf(body.blob).s3_hash
                     \/ previous.size_hint # ValueOf(body.blob).size_hint
                     \/ previous.mime_hint # ValueOf(body.blob).mime_hint
        licCh  == IsSet(body.licensing) /\ previous.licensing # ValueOf(body.licensing)
    IN  [page_id   |-> IF pageCh THEN ValueOf(body.page_id) ELSE page_id,
         name      |-> IF nameCh THEN ValueOf(body.name) ELSE previous.name,
         s3_hash   |-> IF blobCh THEN ValueOf(body.blob).s3_hash ELSE previous.s3_hash,
         size_hint |-> IF blobCh THEN ValueOf(body.blob).size_hint ELSE previous.size_hint,
         mime_hint |-> IF blobCh THEN ValueOf(body.blob).mime_hint ELSE previous.mime_hint,
         licensing |-> IF licCh THEN ValueOf(body.licensing) ELSE previous.licensing,
         changes   |-> (IF pageCh THEN <<"page">> ELSE <<>>)
                       \o (IF nameCh THEN <<"name">> ELSE <<>>)
                       \o (IF blobCh THEN <<"blob">> ELSE <<>>)
                       \o (IF licCh THEN <<"licensing">> ELSE <<>>)]

\* MergeFields that compares the blob by its hash alone.
MergeFields_HashOnly(previous, page_id, body) ==
    LET pageCh == IsSet(body.page_id) /\ page_id # ValueOf(body.page_id)
        nameCh == IsSet(body.name) /\ previous.name # ValueOf(body.name)
        blobCh == /\ IsSet(body.blob)
                  /\ previous.s3_hash # ValueOf(body.blob).s3_hash
        licCh  == IsSet(body.licensing) /\ previous.licensing # ValueOf(body.licensing)
    IN  [page_id   |-> IF pageCh THEN ValueOf(body.page_id) ELSE page_id,
         name      |-> IF nameCh THEN ValueOf(body.name) ELSE previous.name,
         s3_hash   |-> IF blobCh THEN ValueOf(body.blob).s3_hash ELSE previous.s3_hash,
         size_hint |-> IF blobCh THEN ValueOf(body.blob).size_hint ELSE previous.size_hint,
         mime_hint |-> IF blobCh THEN ValueOf(body.blob).mime_hint ELSE previous.mime_hint,
         licensing |-> IF licCh THEN ValueOf(body.licensing) ELSE previous.licensing,
         changes   |-> (IF pageCh THEN <<"page">> ELSE <<>>)
                       \o (IF nameCh THEN <<"name">> ELSE <<>>)
                       \o (IF blobCh THEN <<"blob">> ELSE <<>>)
                       \o (IF licCh THEN <<"licensing">> ELSE <<>>)]

\* The "Update fields from input" part of create: the merged fields and the
\* list of changes, in the order the code pushes them.
MergeFields(previous, page_id, body) ==
    LET pageCh == IsSet(body.page_id) /\ page_id # ValueOf(body.page_id)
        nameCh == IsSet(body.name) /\ previous.name # ValueOf(body.name)
        blobCh == /\ IsSet(body.blob)
                  /\ \/ previous.s3_hash # ValueOf(body.blob).s3_hash
                     \/ previous.size_hint # ValueOf(body.blob).size_hint
                     \/ previous.mime_hint # ValueOf(body.blob).mime_hint
        licCh  == IsSet(body.licensing) /\ previous.licensing # ValueOf(body.licensing)
    IN  [page_id   |-> IF pageCh THEN ValueOf(body.page_id) ELSE page_id,
         name      |-> IF nameCh THEN ValueOf(body.name) ELSE previous.name,
         s3_hash   |-> IF blobCh THEN ValueOf(body.blob).s3_hash ELSE previous.s3_hash,
         size_hint |-> IF blobCh THEN ValueOf(body.blob).size_hint ELSE previous.size_hint,
         mime_hint |-> IF blobCh THEN ValueOf(body.blob).mime_hint ELSE previous.mime_hint,
         licensing |-> IF licCh THEN ValueOf(body.licensing) ELSE previous.licensing,
         changes   |-> (IF pageCh THEN <<"page">> ELSE <<>>)
                       \o (IF nameCh THEN <<"name">> ELSE <<>>)
                       \o (IF blobCh THEN <<"blob">> ELSE <<>>)
                       \o (IF licCh THEN <<"licensing">> ELSE <<>>)]

\* Validate that accepts a name of exactly 256 bytes.
Validate_OffByOne(name, mime_hint) ==
    IF name = <<>> THEN "FileNameEmpty"
    ELSE IF StrLen(name) > 256 THEN "FileNameTooLong"
    ELSE IF mime_hint = "" THEN "FileMimeEmpty"
    ELSE ""

\* The "Validate inputs" part of create: the error it returns, "" for none.
Validate(name, mime_hint) ==
    IF name = <<>> THEN "FileNameEmpty"
    ELSE IF StrLen(name) >= 256 THEN "FileNameTooLong"
    ELSE IF mime_hint = "" THEN "FileMimeEmpty"
    ELSE ""

\* FileRevisionService::create
create(db, input, previous, fault) ==
    {(LET
        m == MergeFields(previous, input.page_id, input.body)
        slug == get_page_slug(input.site_id, m.page_id, fault)
        db1 == process_page(db, "edit", input.site_id, m.page_id, slug.out)
        model == [revision_id     |-> 0,
                  revision_type   |-> "Update",
                  revision_number |-> 0,
                  file_id         |-> input.file_id,
                  page_id         |-> m.page_id,
                  site_id         |-> input.site_id,
                  user_id         |-> input.user_id,
                  name            |-> m.name,
                  s3_hash         |-> m.s3_hash,
                  size_hint       |-> m.size_hint,
                  mime_hint       |-> m.mime_hint,
                  licensing       |-> m.licensing,
                  changes         |-> m.changes,
                  comments        |-> input.comments,
                  hidden          |-> <<>>]
        db2 == insert(db1, model)
    IN  IF n.panic THEN Ret(db, Panic(n.msg))
        ELSE IF m.changes = <<>> THEN Ret(db, OkNone)
        ELSE IF Validate(m.name, m.mime_hint) # "" THEN
            Ret(db, Err(Validate(m.name, m.mime_hint)))
        ELSE IF slug.status # "Ok" THEN Ret(db, slug)
        ELSE IF fault = "outdate" THEN Ret(db, Err("Outdate"))
        ELSE IF fault = "insert" THEN Ret(db1, Err("Database"))
        ELSE Ret(db2, Ok([file_revision_id |-> db2.revisions[Len(db2.revisions)].revision_id,
                          file_revision_number |-> n.value])))
        : n \in next_revision_number(previous, input.page_id, input.file_id)}

\* create_first that reports the new file to the outdater as a page edit.
create_first_AsEdit(db, input, fault) ==
    LET slug == get_page_slug(input.site_id, input.page_id, fault)
        db1 == process_page(db, "edit", input.site_id, input.page_id, slug.out)
        model == [revision_id     |-> 0,
                  revision_type   |-> "Create",
                  revision_number |-> 0,
                  file_id         |-> input.file_id,
                  page_id         |-> input.page_id,
                  site_id         |-> input.site_id,
                  user_id         |-> input.user_id,
                  name            |-> input.name,
                  s3_hash         |-> input.s3_hash,
                  size_hint       |-> input.size_hint,
                  mime_hint       |-> input.mime_hint,
                  licensing       |-> input.licensing,
                  changes         |-> ALL_CHANGES,
                  comments        |-> input.comments,
                  hidden          |-> <<>>]
        db2 == insert(db1, model)
    IN  IF slug.status # "Ok" THEN Ret(db, slug)
        ELSE IF fault = "outdate" THEN Ret(db, Err("Outdate"))
        ELSE IF fault = "insert" THEN Ret(db1, Err("Database"))
        ELSE Ret(db2, Ok([file_id |-> input.file_id,
                          file_revision_id |-> db2.revisions[Len(db2.revisions)].revision_id]))

\* FileRevisionService::create_first
create_first(db, input, fault) ==
    LET slug == get_page_slug(input.site_id, input.page_id, fault)
        db1 == process_page(db, "displace", input.site_id, input.page_id, slug.out)
        model == [revision_id     |-> 0,
                  revision_type   |-> "Create",
                  revision_number |-> 0,
                  file_id         |-> input.file_id,
                  page_id         |-> input.page_id,
                  site_id         |-> input.site_id,
                  user_id         |-> input.user_id,
                  name            |-> input.name,
                  s3_hash         |-> input.s3_hash,
                  size_hint       |-> input.size_hint,
                  mime_hint       |-> input.mime_hint,
                  licensing       |-> input.licensing,
                  changes         |-> ALL_CHANGES,
                  comments        |-> input.comments,
                  hidden          |-> <<>>]
        db2 == insert(db1, model)
    IN  IF slug.status # "Ok" THEN Ret(db, slug)
        ELSE IF fault = "outdate" THEN Ret(db, Err("Outdate"))
        ELSE IF fault = "insert" THEN Ret(db1, Err("Database"))
        ELSE Ret(db2, Ok([file_id |-> input.file_id,
                          file_revision_id |-> db2.revisions[Len(db2.revisions)].revision_id]))

\* create_tombstone that ignores the result of the insert.
create_tombstone_SwallowInsert(db, input, previous, fault) ==
    {(LET
        slug == get_page_slug(input.site_id, input.page_id, fault)
        db1 == process_page(db, "edit", input.site_id, input.page_id, slug.out)
        model == [revision_id     |-> 0,
                  revision_type   |-> "Delete",
                  revision_number |-> n.value,
                  file_id         |-> input.file_id,
                  page_id         |-> input.page_id,
                  site_id         |-> input.site_id,
                  user_id         |-> input.user_id,
                  name            |-> previous.name,
                  s3_hash         |-> previous.s3_hash,
                  size_hint       |-> previous.size_hint,
                  mime_hint       |-> previous.mime_hint,
                  licensing       |-> previous.licensing,
                  changes         |-> <<>>,
                  comments        |-> input.comments,
                  hidden          |-> <<>>]
        db2 == insert(db1, model)
    IN  IF n.panic THEN Ret(db, Panic(n.msg))
        ELSE IF slug.status # "Ok" THEN Ret(db, slug)
        ELSE IF fault = "outdate" THEN Ret(db, Err("Outdate"))
        ELSE IF fault = "insert" THEN Ret(db1, Ok([file_revision_id |-> 0,
                                                    file_revision_number |-> n.value]))
        ELSE Ret(db2, Ok([file_revision_id |-> db2.revisions[Len(db2.revisions)].revision_id,
                          file_revision_number |-> n.value])))
        : n \in next_revision_number(previous, input.page_id, input.file_id)}

\* FileRevisionService::create_tombstone
create_tombstone(db, input, previous, fault) ==
    {(LET
        slug == get_page_slug(input.site_id, input.page_id, fault)
        db1 == process_page(db, "edit", input.site_id, input.page_id, slug.out)
        model == [revision_id     |-> 0,
                  revision_type   |-> "Delete",
                  revision_number |-> n.value,
                  file_id         |-> input.file_id,
                  page_id         |-> input.page_id,
                  site_id         |-> input.site_id,
                  user_id         |-> input.user_id,
                  name            |-> previous.name,
                  s3_hash         |-> previous.s3_hash,
                  size_hint       |-> previous.size_hint,
                  mime_hint       |-> previous.mime_hint,
                  licensing       |-> previous.licensing,
                  changes         |-> <<>>,
                  comments        |-> input.comments,
                  hidden          |-> <<>>]
        db2 == insert(db1, model)
    IN  IF n.panic THEN Ret(db, Panic(n.msg))
        ELSE IF slug.status # "Ok" THEN Ret(db, slug)
        ELSE IF fault = "outdate" THEN Ret(db, Err("Outdate"))
        ELSE IF fault = "insert" THEN Ret(db1, Err("Database"))
        ELSE Ret(db2, Ok([file_revision_id |-> db2.revisions[Len(db2.revisions)].revision_id,
                          file_revision_number |-> n.value])))
        : n \in next_revision_number(previous, input.page_id, input.file_id)}

\* ResurrectionChanges that tests the page twice and the name never.
ResurrectionChanges_PageOnly(old_page_id, new_page_id, old_name, new_name) ==
    (IF old_page_id # new_page_id THEN <<"page">> ELSE <<>>)
    \o (IF old_page_id # new_page_id THEN <<"name">> ELSE <<>>)

\* The `changes` block of create_resurrection.
ResurrectionChanges(old_page_id, new_page_id, old_name, new_name) ==
    (IF old_page_id # new_page_id THEN <<"page">> ELSE <<>>)
    \o (IF old_name # new_name THEN <<"name">> ELSE <<>>)

\* create_resurrection that numbers the revision without the consistency
\* assertions of next_revision_number.
create_resurrection_Unchecked(db, input, previous, fault) ==
    {(LET changes == ResurrectionChanges(input.page_id, input.new_page_id,
                                       previous.name, input.new_name)
        slug == get_page_slug(input.site_id, input.new_page_id, fault)
        db1 == process_page(db, "edit", input.site_id, input.new_page_id, slug.out)
        model == [revision_id     |-> 0,
                  revision_type   |-> "Undelete",
                  revision_number |-> previous.revision_number + 1,
                  file_id         |-> input.file_id,
                  page_id         |-> input.new_page_id,
                  site_id         |-> input.site_id,
                  user_id         |-> input.user_id,
                  name            |-> input.new_name,
                  s3_hash         |-> previous.s3_hash,
                  size_hint       |-> previous.size_hint,
                  mime_hint       |-> previous.mime_hint,
                  licensing       |-> previous.licensing,
                  changes         |-> changes,
                  comments        |-> input.comments,
                  hidden          |-> <<>>]
        db2 == insert(db1, model)
    IN  IF slug.status # "Ok" THEN Ret(db, slug)
        ELSE IF fault = "outdate" THEN Ret(db, Err("Outdate"))
        ELSE IF fault = "insert" THEN Ret(db1, Err("Database"))
        ELSE Ret(db2, Ok([file_revision_id |-> db2.revisions[Len(db2.revisions)].revision_id,
                          file_revision_number |-> previous.revision_number + 1])))}

\* FileRevisionService::create_resurrection
create_resurrection(db, input, previous, fault) ==
    {(LET
        changes == ResurrectionChanges(input.page_id, input.new_page_id,
                                       previous.name, input.new_name)
        slug == get_page_slug(input.site_id, input.new_page_id, fault)
        db1 == process_page(db, "edit", input.site_id, input.new_page_id, slug.out)
        model == [revision_id     |-> 0,
                  revision_type   |-> "Undelete",
                  revision_number |-> n.value,
                  file_id         |-> input.file_id,
                  page_id         |-> input.new_page_id,
                  site_id         |-> input.site_id,
                  user_id         |-> input.user_id,
                  name            |-> input.new_name,
                  s3_hash         |-> previous.s3_hash,
                  size_hint       |-> previous.size_hint,
                  mime_hint       |-> previous.mime_hint,
                  licensing       |-> previous.licensing,
                  changes         |-> changes,
                  comments        |-> input.comments,
                  hidden          |-> <<>>]
        db2 == insert(db1, model)
    IN  IF n.panic THEN Ret(db, Panic(n.msg))
        ELSE IF slug.status # "Ok" THEN Ret(db, slug)
        ELSE IF fault = "outdate" THEN Ret(db, Err("Outdate"))
        ELSE IF fault = "insert" THEN Ret(db1, Err("Database"))
        ELSE Ret(db2, Ok([file_revision_id |-> db2.revisions[Len(db2.revisions)].revision_id,
                          file_revision_number |-> n.value])))
        : n \in next_revision_number(previous, input.page_id, input.file_id)}

\* The rows a sequence holds, as a set.
Rows(revs) == {revs[i] : i \in 1..Len(revs)}

\* FileRevisionService::get_latest: the rows the query can return, the rows
\* of (site, page, file) with the greatest revision_number. The database
\* orders rows of equal revision_number arbitrarily, so every one of them
\* is a possible answer; no row at all is FileRevisionNotFound.
get_latest(db, site_id, page_id, file_id) ==
    LET match == {r \in Rows(db.revisions) :
                     r.site_id = site_id /\ r.page_id = page_id /\ r.file_id = file_id}
    IN  {r \in match : \A o \in match : o.revision_number <= r.revision_number}

\* update_with that also blanks the comments of the row it hides.
update_with_BlankComments(db, input, latest) ==
    IF input.revision_id = latest.revision_id
    THEN Ret(db, Err("CannotHideLatestRevision"))
    ELSE IF input.revision_id \notin 1..Len(db.revisions)
    THEN Ret(db, Err("Database"))
    ELSE LET db1 == [db EXCEPT !.revisions[input.revision_id].hidden = input.hidden,
                               !.revisions[input.revision_id].comments = ""]
         IN  Ret(db1, Ok(db1.revisions[input.revision_id]))

\* FileRevisionService::update, given the row get_latest returned.
update_with(db, input, latest) ==
    IF input.revision_id = latest.revision_id
    THEN Ret(db, Err("CannotHideLatestRevision"))
    ELSE IF input.revision_id \notin 1..Len(db.revisions)
    THEN Ret(db, Err("Database"))
    ELSE LET db1 == [db EXCEPT !.revisions[input.revision_id].hidden = input.hidden]
         IN  Ret(db1, Ok(db1.revisions[input.revision_id]))

\* FileRevisionService::count
count(db, page_id, file_id) ==
    LET row_count == Cardinality({r \in Rows(db.revisions) :
                                     r.page_id = page_id /\ r.file_id = file_id})
    IN  IF row_count > I32_MAX
        THEN Panic("Revision row count greater than revision_number integer size")
        ELSE IF row_count = 0 THEN Err("FileNotFound")
        ELSE Ok(row_count)

\* FileRevisionService::get_range: the results the query can give. The
\* database orders rows of equal revision_number arbitrarily, so the result
\* is any sequence of the first `limit` matching rows of some ascending order.
get_range(db, input) ==
    LET revision_number == IF input.revision_number >= 0
                           THEN input.revision_number ELSE I32_MAX
        match == {r \in Rows(db.revisions) :
                    /\ r.page_id = input.page_id
                    /\ r.file_id = input.file_id
                    /\ input.revision_direction = "Before" =>
                          r.revision_number <= revision_number
                    /\ input.revision_direction = "After" =>
                          r.revision_number >= revision_number}
        k == IF input.limit < Cardinality(match) THEN input.limit
             ELSE Cardinality(match)
    IN  {Ok(q) : q \in {q \in [1..k -> match] :
            /\ \A i, j \in 1..k : i < j =>
                  /\ q[i] # q[j]
                  /\ q[i].revision_number <= q[j].revision_number
            /\ \A r \in match \ {q[i] : i \in 1..k} :
                  \A i \in 1..k : q[i].revision_number <= r.revision_number}}

\* ---------------------------------------------------------------------------
\* State

VARIABLES
    revisions,  \* committed rows of table file_revision, in insertion order
    outdated,   \* committed calls to the outdater, in call order
    last,       \* the last request served: method, input, previous, result
    tasks,      \* concurrent requests: where each is, and the record it read
    users,      \* rows of table user
    sessions,   \* rows of table session
    verified,   \* calls to the verification services made by the last request
    text,       \* the string handed to typography::substitute, as characters
    cursor      \* the replacer typography::substitute is in, and its offset

vars == <<revisions, outdated, last, tasks, users, sessions, verified, text, cursor>>

\* No call of typography::substitute is under way.
NoCursor == [replacer |-> "none", offset |-> 0]

Procs == {1, 2}

NoRevision ==
    [revision_id |-> 0, revision_type |-> "None", revision_number |-> -1,
     file_id |-> 0, page_id |-> 0, site_id |-> 0, user_id |-> 0,
     name |-> <<>>, s3_hash |-> "", size_hint |-> 0, mime_hint |-> "",
     licensing |-> "", changes |-> <<>>, comments |-> "", hidden |-> <<>>]

NoRequest == [op |-> "none", input |-> <<>>, previous |-> NoRevision,
              fault |-> "none", result |-> OkNone]

Idle == [pc |-> "idle", previous |-> NoRevision, input |-> <<>>]

Init ==
    /\ revisions = <<>>
    /\ outdated = <<>>
    /\ last = NoRequest
    /\ tasks = [p \in Procs |-> Idle]
    /\ users = {}
    /\ sessions = {}
    /\ verified = <<>>
    /\ text = <<>>
    /\ cursor = NoCursor

DB == [revisions |-> revisions, outdated |-> outdated]

\* The transaction scope of one request: what the method wrote is committed
\* when it returns Ok and rolled back when it returns an error or panics.
Transact(db, r) == IF r.result.status \in {"Ok", "OkNone"} THEN r.db ELSE db

Serve(op, input, previous, fault, r) ==
    /\ revisions' = Transact(DB, r).revisions
    /\ outdated' = Transact(DB, r).outdated
    /\ last' = [op |-> op, input |-> input, previous |-> previous,
                fault |-> fault, result |-> r.result]
    /\ UNCHANGED <<users, sessions, verified, text, cursor>>

\* ---------------------------------------------------------------------------
\* The caller of the revision-creating methods: it reads the resource's
\* latest record, and calls the method that matches the lifecycle state.

ResourceRows(revs, site_id, file_id) ==
    {r \in Rows(revs) : r.site_id = site_id /\ r.file_id = file_id}

\* The most recently appended record of the resource.
TrueLatest(revs, site_id, file_id) ==
    CHOOSE r \in ResourceRows(revs, site_id, file_id) :
        \A o \in ResourceRows(revs, site_id, file_id) : o.revision_id <= r.revision_id

NonExistent(revs, site_id, file_id) == ResourceRows(revs, site_id, file_id) = {}
Live(previous) == previous.revision_type \in {"Create", "Update", "Undelete"}
Tombstoned(previous) == previous.revision_type = "Delete"

\* ---------------------------------------------------------------------------
\* Requests

CreateFirstInputs(PageSet, NameSet, BlobSet, LicSet) ==
    {[site_id |-> s, page_id |-> p, file_id |-> f, user_id |-> u, name |-> n,
      s3_hash |-> b.s3_hash, size_hint |-> b.size_hint, mime_hint |-> b.mime_hint,
      licensing |-> l, comments |-> c] :
        s \in Sites, p \in PageSet, f \in Files, u \in Users, n \in NameSet,
        b \in BlobSet, l \in LicSet, c \in Comments}

Bodies(PageSet, NameSet, BlobSet, LicSet) ==
    [page_id : Provided(PageSet), name : Provided(NameSet),
     blob : Provided(BlobSet), licensing : Provided(LicSet)]

TombstoneInput(previous, user_id, comments) ==
    [site_id |-> previous.site_id, page_id |-> previous.page_id,
     file_id |-> previous.file_id, user_id |-> user_id, comments |-> comments]

ResurrectionInput(previous, user_id, comments, new_page_id, new_name) ==
    [site_id |-> previous.site_id, page_id |-> previous.page_id,
     file_id |-> previous.file_id, user_id |-> user_id,
     new_page_id |-> new_page_id, new_name |-> new_name, comments |-> comments]

CreateFirstOn(max, Inputs, FaultSet) ==
    /\ Len(revisions) < max
    /\ \E input \in Inputs, fault \in FaultSet :
        /\ NonExistent(revisions, input.site_id, input.file_id)
        /\ Serve("create_first", input, NoRevision, fault,
                 create_first(DB, input, fault))
    /\ UNCHANGED tasks

CreateOn(max, BodySet, FaultSet) ==
    /\ Len(revisions) < max
    /\ \E site_id \in Sites, file_id \in Files, user_id \in Users,
          comments \in Comments, body \in BodySet, fault \in FaultSet :
        /\ ~NonExistent(revisions, site_id, file_id)
        /\ LET previous == TrueLatest(revisions, site_id, file_id)
               input == [site_id |-> site_id, page_id |-> previous.page_id,
                         file_id |-> file_id, user_id |-> user_id,
                         comments |-> comments, body |-> body]
           IN  /\ Live(previous)
               /\ \E r \in create(DB, input, previous, fault) :
                        Serve("create", input, previous, fault, r)
    /\ UNCHANGED tasks

CreateTombstoneOn(max, FaultSet) ==
    /\ Len(revisions) < max
    /\ \E site_id \in Sites, file_id \in Files, user_id \in Users,
          comments \in Comments, fault \in FaultSet :
        /\ ~NonExistent(revisions, site_id, file_id)
        /\ LET previous == TrueLatest(revisions, site_id, file_id)
               input == TombstoneInput(previous, user_id, comments)
           IN  /\ Live(previous)
               /\ \E r \in create_tombstone(DB, input, previous, fault) :
                        Serve("create_tombstone", input, previous, fault, r)
    /\ UNCHANGED tasks

CreateResurrectionOn(max, PageSet, NameSet, FaultSet) ==
    /\ Len(revisions) < max
    /\ \E site_id \in Sites, file_id \in Files, user_id \in Users,
          comments \in Comments, new_page_id \in PageSet, new_name \in NameSet,
          fault \in FaultSet :
        /\ ~NonExistent(revisions, site_id, file_id)
        /\ LET previous == TrueLatest(revisions, site_id, file_id)
               input == ResurrectionInput(previous, user_id, comments,
                                          new_page_id, new_name)
           IN  /\ Tombstoned(previous)
               /\ \E r \in create_resurrection(DB, input, previous, fault) :
                        Serve("create_resurrection", input, previous, fault, r)
    /\ UNCHANGED tasks

\* The clients that send redactions.
Redactors == {1}

\* FileRevisionService::update up to the answer of get_latest: the request
\* fails when the resource has no revision on the page, and otherwise holds
\* the latest revision it was given while it waits for its write. Only the
\* site, page and file of the request play a part up to here; revision_id,
\* user_id and hidden are drawn where the request first uses them.
UpdateGetLatestOn(p, FileSet) ==
    /\ tasks[p].pc = "idle"
    /\ \E site_id \in Sites, page_id \in Pages, file_id \in FileSet :
         LET latests == get_latest(DB, site_id, page_id, file_id)
         IN  IF latests = {}
             THEN /\ \E revision_id \in 1..(Len(revisions) + 1),
                        user_id \in Users, hidden \in HiddenLists :
                        Serve("update",
                              [site_id |-> site_id, page_id |-> page_id,
                               file_id |-> file_id, revision_id |-> revision_id,
                               user_id |-> user_id, hidden |-> hidden],
                              NoRevision, "none",
                              Ret(DB, Err("FileRevisionNotFound")))
                  /\ UNCHANGED tasks
             ELSE \E latest \in latests :
                    LET resource == [site_id |-> site_id, page_id |-> page_id,
                                     file_id |-> file_id]
                    IN  /\ tasks' = [tasks EXCEPT ![p] =
                                        [pc |-> "update", previous |-> latest,
                                         input |-> resource]]
                        /\ last' = [op |-> "update.get_latest", input |-> resource,
                                    previous |-> NoRevision, fault |-> "none",
                                    result |-> Ok(latest)]
                        /\ UNCHANGED <<revisions, outdated, users, sessions,
                                       verified, text, cursor>>

\* FileRevisionService::update from the answer of get_latest on: the check
\* against the latest revision it holds, and the write by primary key on
\* the table as it is now.
UpdateWriteOn(p) ==
    /\ tasks[p].pc = "update"
    /\ \E revision_id \in 1..(Len(revisions) + 1), user_id \in Users,
          hidden \in HiddenLists :
         LET input == [site_id |-> tasks[p].input.site_id,
                       page_id |-> tasks[p].input.page_id,
                       file_id |-> tasks[p].input.file_id,
                       revision_id |-> revision_id,
                       user_id |-> user_id, hidden |-> hidden]
         IN  Serve("update", input, NoRevision, "none",
                   update_with(DB, input, tasks[p].previous))
    /\ tasks' = [tasks EXCEPT ![p] = Idle]

\* ---------------------------------------------------------------------------
\* The lifecycle specification: every request and every fault, on few values.

LifeFirstInputs == CreateFirstInputs(Pages, {<<"a", ".", "p", "n", "g">>}, {BlobPng}, {"cc0"})
LifeBodies == Bodies(Pages, GoodNames, {}, {})

CreateFirst == CreateFirstOn(MaxRevs, LifeFirstInputs, Faults)
Create == CreateOn(MaxRevs, LifeBodies, Faults)
CreateTombstone == CreateTombstoneOn(MaxRevs, Faults)
CreateResurrection == CreateResurrectionOn(MaxRevs, Pages, GoodNames, Faults)

UpdateGetLatest == \E p \in Redactors : UpdateGetLatestOn(p, Files)
UpdateWrite == \E p \in Redactors : UpdateWriteOn(p)

Next ==
    \/ CreateFirst
    \/ Create
    \/ CreateTombstone
    \/ CreateResurrection
    \/ UpdateGetLatest
    \/ UpdateWrite

Spec == Init /\ [][Next]_vars

\* ---------------------------------------------------------------------------
\* The specification of the diff: create_first and create on every value.

DiffFaults == {"none", "slug"}
DiffFirstInputs ==
    CreateFirstInputs({10}, {<<"a", ".", "p", "n", "g">>, <<>>}, {BlobPng, BlobNoMime}, {"cc0"})
DiffBodies ==
    Bodies(Pages, {<<"a", ".", "p", "n", "g">>, <<"b", ".", "p", "n", "g">>, <<>>},
           {BlobPng, BlobJpg, BlobNoMime},
           {"cc0", "mit"})

DiffCreateFirst == CreateFirstOn(MaxDiffRevs, DiffFirstInputs, DiffFaults)
DiffCreate == CreateOn(MaxDiffRevs, DiffBodies, DiffFaults)

NextDiff ==
    \/ DiffCreateFirst
    \/ DiffCreate

SpecDiff == Init /\ [][NextDiff]_vars

\* ---------------------------------------------------------------------------
\* The specification of the validation: create on names and blobs that do
\* and do not pass it, under every fault.

ValidBodies ==
    Bodies({}, {<<"b", ".", "p", "n", "g">>, <<>>, LongName, WideName},
           {BlobJpg, BlobNoMime}, {"mit"})

ValidCreateFirst == CreateFirstOn(MaxDiffRevs, DiffFirstInputs, {"none"})
ValidCreate == CreateOn(MaxDiffRevs, ValidBodies, Faults)

NextValid ==
    \/ ValidCreateFirst
    \/ ValidCreate

SpecValid == Init /\ [][NextValid]_vars

\* ---------------------------------------------------------------------------
\* The specification of the `previous` argument: the revision-creating
\* methods called with any stored row as `previous` and any identifiers in
\* the request, whatever the lifecycle state.

PrevSites == {1, 2}
PrevFiles == {5, 6}
PrevFaults == {"none", "slug"}
PrevBodies == Bodies({11}, {<<"b", ".", "p", "n", "g">>}, {}, {})

\* file_id is the primary key of table file: a new file has an unused one.
PrevCreateFirst ==
    /\ Len(revisions) < MaxPrevRevs
    /\ \E input \in {[i EXCEPT !.file_id = f] : i \in LifeFirstInputs, f \in PrevFiles} :
        /\ \A r \in Rows(revisions) : r.file_id # input.file_id
        /\ Serve("create_first", input, NoRevision, "none",
                 create_first(DB, input, "none"))
    /\ UNCHANGED tasks

PrevCreate ==
    /\ Len(revisions) < MaxPrevRevs
    /\ \E previous \in Rows(revisions), site_id \in PrevSites, page_id \in Pages,
          file_id \in PrevFiles, user_id \in Users, comments \in Comments,
          body \in PrevBodies, fault \in PrevFaults :
         LET input == [site_id |-> site_id, page_id |-> page_id,
                       file_id |-> file_id, user_id |-> user_id,
                       comments |-> comments, body |-> body]
         IN  \E r \in create(DB, input, previous, fault) :
                   Serve("create", input, previous, fault, r)
    /\ UNCHANGED tasks

PrevCreateTombstone ==
    /\ Len(revisions) < MaxPrevRevs
    /\ \E previous \in Rows(revisions), site_id \in PrevSites, page_id \in Pages,
          file_id \in PrevFiles, user_id \in Users, comments \in Comments,
          fault \in PrevFaults :
         LET input == [site_id |-> site_id, page_id |-> page_id,
                       file_id |-> file_id, user_id |-> user_id,
                       comments |-> comments]
         IN  \E r \in create_tombstone(DB, input, previous, fault) :
                   Serve("create_tombstone", input, previous, fault, r)
    /\ UNCHANGED tasks

PrevCreateResurrection ==
    /\ Len(revisions) < MaxPrevRevs
    /\ \E previous \in Rows(revisions), site_id \in PrevSites, page_id \in Pages,
          file_id \in PrevFiles, user_id \in Users, comments \in Comments,
          new_page_id \in Pages, fault \in PrevFaults :
         LET input == [site_id |-> site_id, page_id |-> page_id,
                       file_id |-> file_id, user_id |-> user_id,
                       new_page_id |-> new_page_id, new_name |-> <<"b", ".", "p", "n", "g">>,
                       comments |-> comments]
         IN  \E r \in create_resurrection(DB, input, previous, fault) :
                   Serve("create_resurrection", input, previous, fault, r)
    /\ UNCHANGED tasks

NextPrev ==
    \/ PrevCreateFirst
    \/ PrevCreate
    \/ PrevCreateTombstone
    \/ PrevCreateResurrection

SpecPrev == Init /\ [][NextPrev]_vars

\* ---------------------------------------------------------------------------
\* The specification of the queries: the lifecycle without faults, and
\* get_latest, count and get_range asked at any moment.

QueryFirstInputs == CreateFirstInputs(Pages, {<<"a", ".", "p", "n", "g">>}, {BlobPng}, {"cc0"})
QueryBodies == Bodies(Pages, {}, {}, {})
RangeAnchors == {-1, 0, 1, 2}
RangeLimits == {1, 2, 4}
FetchDirection == {"Before", "After"}

QueryCreateFirst == CreateFirstOn(MaxQueryRevs, QueryFirstInputs, {"none"})
QueryCreate == CreateOn(MaxQueryRevs, QueryBodies, {"none"})
QueryCreateTombstone == CreateTombstoneOn(MaxQueryRevs, {"none"})
QueryCreateResurrection == CreateResurrectionOn(MaxQueryRevs, Pages, {<<"a", ".", "p", "n", "g">>}, {"none"})

GetLatest ==
    /\ \E site_id \in Sites, page_id \in Pages, file_id \in Files :
         LET input == [site_id |-> site_id, page_id |-> page_id, file_id |-> file_id]
             latests == get_latest(DB, site_id, page_id, file_id)
         IN  \E result \in (IF latests = {} THEN {Err("FileRevisionNotFound")}
                            ELSE {Ok(r) : r \in latests}) :
                Serve("get_latest", input, NoRevision, "none", Ret(DB, result))
    /\ UNCHANGED tasks

Count ==
    /\ \E page_id \in Pages, file_id \in Files :
         Serve("count", [page_id |-> page_id, file_id |-> file_id], NoRevision,
               "none", Ret(DB, count(DB, page_id, file_id)))
    /\ UNCHANGED tasks

GetRange ==
    /\ \E page_id \in Pages, file_id \in Files, revision_number \in RangeAnchors,
          revision_direction \in FetchDirection, limit \in RangeLimits :
         LET input == [page_id |-> page_id, file_id |-> file_id,
                       revision_number |-> revision_number,
                       revision_direction |-> revision_direction,
                       limit |-> limit]
         IN  \E result \in get_range(DB, input) :
                Serve("get_range", input, NoRevision, "none", Ret(DB, result))
    /\ UNCHANGED tasks

NextQuery ==
    \/ QueryCreateFirst
    \/ QueryCreate
    \/ QueryCreateTombstone
    \/ QueryCreateResurrection
    \/ GetLatest
    \/ Count
    \/ GetRange

SpecQuery == Init /\ [][NextQuery]_vars

\* ---------------------------------------------------------------------------
\* Authentication (deepwell/src/services/authentication/service.rs)

None == <<"None">>
Some(v) == <<"Some", v>>

\* The stored form of a password.
Hash(password) == <<"hash", password>>

\* A password the dummy user's hash was made from; nobody is told it, but
\* nothing prevents a request from carrying it.
DummyPassword == "dummy"
DummyHash == Hash(DummyPassword)

AuthUsers ==
    {[user_id |-> 1, name |-> "Alice", slug |-> "alice",
      email |-> "alice@example.com", password |-> Hash("pw-a"),
      multi_factor_secret |-> None, multi_factor_recovery_codes |-> {}],
     [user_id |-> 2, name |-> "Bob", slug |-> "bob",
      email |-> "bob@example.com", password |-> Hash("pw-b"),
      multi_factor_secret |-> Some("totp-b"),
      multi_factor_recovery_codes |-> {<<"r", "c">>, <<"7", "x">>}],
     \* A user whose name is the email address of another.
     [user_id |-> 3, name |-> "bob@example.com", slug |-> "bob-example-com",
      email |-> "eve@example.com", password |-> Hash("pw-a"),
      multi_factor_secret |-> None, multi_factor_recovery_codes |-> {}]}

AuthNames == {"Alice", "bob", "bob@example.com", "eve@example.com", "mallory"}
AuthPasswords == {"pw-a", "pw-b", DummyPassword}

\* UserAuthInfo::valid
UserAuthInfo_valid(user) ==
    [user_id |-> user.user_id, password_hash |-> user.password,
     multi_factor_secret |-> user.multi_factor_secret, valid |-> TRUE]

\* UserAuthInfo::invalid, the dummy user
UserAuthInfo_invalid ==
    [user_id |-> 0, password_hash |-> DummyHash,
     multi_factor_secret |-> None, valid |-> FALSE]

\* PasswordService::verify
PasswordService_verify(password, password_hash) ==
    IF password_hash = Hash(password) THEN Ok(<<>>)
    ELSE Err("InvalidAuthentication")

\* AuthenticationService::get_user_auth: the answers the query can give; it
\* takes any one of the users matching by name, slug or email.
get_user_auth(table, name_or_email, fault) ==
    LET match == {u \in table : \/ u.name = name_or_email
                                \/ u.slug = name_or_email
                                \/ u.email = name_or_email}
    IN  IF fault = "database" THEN {Err("Database")}
        ELSE IF match = {} THEN {Ok(UserAuthInfo_invalid)}
        ELSE {Ok(UserAuthInfo_valid(user)) : user \in match}

\* AuthenticationService::auth_password: the outcomes, each with the calls
\* to PasswordService::verify it made.
auth_password(table, input, fault) ==
    {IF auth.status # "Ok" THEN [result |-> auth, verified |-> <<>>]
     ELSE LET v == PasswordService_verify(input.password, auth.out.password_hash)
              calls == <<[password |-> input.password,
                          password_hash |-> auth.out.password_hash]>>
          IN  IF v.status # "Ok" THEN [result |-> v, verified |-> calls]
              ELSE IF ~auth.out.valid
              THEN [result |-> Err("InvalidAuthentication"), verified |-> calls]
              ELSE [result |-> Ok([needs_mfa |-> auth.out.multi_factor_secret # None,
                                   user_id |-> auth.out.user_id]),
                    verified |-> calls]
     : auth \in get_user_auth(table, input.name_or_email, fault)}

\* Rows of table session: the token is the key.
AuthSessions ==
    {[session_token |-> "tok-a", user_id |-> 1, restricted |-> TRUE],
     [session_token |-> "tok-b", user_id |-> 2, restricted |-> TRUE],
     [session_token |-> "tok-b-full", user_id |-> 2, restricted |-> FALSE]}

\* What a user types as TOTP or recovery code, as characters.
MfaInputs ==
    {<<"1", "2">>, <<"0", "1", "2">>, <<"+", "1", "2">>, <<"9", "9">>,
     <<"-", "1">>, <<"+">>, <<>>, <<"r", "c">>, <<"7", "x">>, <<"x">>,
     <<"4", "2", "9", "4", "9", "6", "7", "2", "9", "6">>}

Digits == {"0", "1", "2", "3", "4", "5", "6", "7", "8", "9"}
DigitValue == [d \in Digits |-> CHOOSE n \in 0..9 : ToString(n) = d]
U32_MAX == <<"4", "2", "9", "4", "9", "6", "7", "2", "9", "5">>

\* A decimal numeral without its leading zeros.
RECURSIVE Normal(_)
Normal(ds) ==
    IF Len(ds) > 1 /\ Head(ds) = "0" THEN Normal(Tail(ds)) ELSE ds

\* Order of two numerals of the same length.
RECURSIVE Greater(_, _)
Greater(a, b) ==
    IF a = <<>> THEN FALSE
    ELSE IF Head(a) # Head(b) THEN DigitValue[Head(a)] > DigitValue[Head(b)]
    ELSE Greater(Tail(a), Tail(b))

\* str::parse::<u32>: an optional plus sign and decimal digits, the value
\* (as a numeral) at most u32::MAX.
ParseU32(chars) ==
    LET ds == IF chars # <<>> /\ Head(chars) = "+" THEN Tail(chars) ELSE chars
        n  == Normal(ds)
    IN  IF ds = <<>> \/ \E i \in 1..Len(ds) : ds[i] \notin Digits
        THEN [ok |-> FALSE, value |-> <<>>]
        ELSE IF Len(n) > Len(U32_MAX) \/ (Len(n) = Len(U32_MAX) /\ Greater(n, U32_MAX))
        THEN [ok |-> FALSE, value |-> <<>>]
        ELSE [ok |-> TRUE, value |-> n]

\* The code the authenticator shows now for a secret.
CurrentTotp(secret) == <<"1", "2">>

\* SessionService::get_user
SessionService_get_user(sessionTable, userTable, session_token, restricted) ==
    LET found == {x \in sessionTable : x.session_token = session_token}
    IN  IF found = {} THEN Err("InvalidSessionToken")
        ELSE LET session == CHOOSE x \in found : TRUE
                 owner == {u \in userTable : u.user_id = session.user_id}
             IN  IF session.restricted # restricted THEN Err("InvalidSessionToken")
                 ELSE IF owner = {} THEN Err("UserNotFound")
                 ELSE Ok(CHOOSE u \in owner : TRUE)

\* MfaService::verify
MfaService_verify(user, totp) ==
    IF user.multi_factor_secret # None
        /\ totp = CurrentTotp(user.multi_factor_secret[2])
    THEN Ok(<<>>) ELSE Err("InvalidAuthentication")

\* MfaService::verify_recovery
MfaService_verify_recovery(user, recovery_code) ==
    IF recovery_code \in user.multi_factor_recovery_codes
    THEN Ok(<<>>) ELSE Err("InvalidAuthentication")

\* auth_mfa that does not wait for the outcome of the verification.
auth_mfa_Unverified(sessionTable, userTable, input) ==
    LET user == SessionService_get_user(sessionTable, userTable,
                                        input.session_token, TRUE)
        totp == ParseU32(input.totp_or_code)
        calls == IF totp.ok
                 THEN <<[service |-> "verify", user_id |-> user.out.user_id,
                         code |-> totp.value]>>
                 ELSE <<[service |-> "verify_recovery", user_id |-> user.out.user_id,
                         code |-> input.totp_or_code]>>
    IN  IF user.status # "Ok" THEN [result |-> user, verified |-> <<>>]
        ELSE [result |-> Ok(user.out), verified |-> calls]

\* AuthenticationService::auth_mfa: the outcome, with the calls to the
\* verification services it made.
auth_mfa(sessionTable, userTable, input) ==
    LET user == SessionService_get_user(sessionTable, userTable,
                                        input.session_token, TRUE)
        totp == ParseU32(input.totp_or_code)
        check == IF totp.ok THEN MfaService_verify(user.out, totp.value)
                 ELSE MfaService_verify_recovery(user.out, input.totp_or_code)
        calls == IF totp.ok
                 THEN <<[service |-> "verify", user_id |-> user.out.user_id,
                         code |-> totp.value]>>
                 ELSE <<[service |-> "verify_recovery", user_id |-> user.out.user_id,
                         code |-> input.totp_or_code]>>
    IN  IF user.status # "Ok" THEN [result |-> user, verified |-> <<>>]
        ELSE IF check.status # "Ok" THEN [result |-> check, verified |-> calls]
        ELSE [result |-> Ok(user.out), verified |-> calls]

AuthMfa ==
    /\ \E session_token \in {"tok-a", "tok-b", "tok-b-full", "tok-none"},
          totp_or_code \in MfaInputs :
         LET input == [session_token |-> session_token,
                       totp_or_code |-> totp_or_code]
             r == auth_mfa(sessions, users, input)
         IN  /\ last' = [op |-> "auth_mfa", input |-> input,
                         previous |-> NoRevision, fault |-> "none",
                         result |-> r.result]
             /\ verified' = r.verified
    /\ UNCHANGED <<revisions, outdated, tasks, users, sessions, text, cursor>>

\* The service starts on any table of users.
InitAuth ==
    /\ revisions = <<>>
    /\ outdated = <<>>
    /\ last = NoRequest
    /\ tasks = [p \in Procs |-> Idle]
    /\ users \in SUBSET AuthUsers
    /\ sessions \in SUBSET AuthSessions
    /\ verified = <<>>
    /\ text = <<>>
    /\ cursor = NoCursor

AuthPassword ==
    /\ \E name_or_email \in AuthNames, password \in AuthPasswords,
          fault \in {"none", "database"} :
         LET input == [name_or_email |-> name_or_email, password |-> password]
         IN  \E r \in auth_password(users, input, fault) :
                /\ last' = [op |-> "auth_password", input |-> input,
                            previous |-> NoRevision, fault |-> fault,
                            result |-> r.result]
                /\ verified' = r.verified
    /\ UNCHANGED <<revisions, outdated, tasks, users, sessions, text, cursor>>

NextAuth ==
    \/ AuthPassword
    \/ AuthMfa

SpecAuth == InitAuth /\ [][NextAuth]_vars

\* ---------------------------------------------------------------------------
\* Typography (ftml/src/preproc/typography.rs). The grave accent is named
\* by its code point, as the characters outside ASCII are.

GRAVE_ACCENT == "u0060"
LEFT_SINGLE_QUOTE == "u2018"
RIGHT_SINGLE_QUOTE == "u2019"
LEFT_DOUBLE_QUOTE == "u201c"
RIGHT_DOUBLE_QUOTE == "u201d"
LOW_DOUBLE_QUOTE == "u201e"
ELLIPSIS == "u2026"

\* Byte offset at which character i of t starts.
ByteOffset(t, i) == StrLen(SubSeq(t, 1, i - 1))

\* The character that starts at a byte offset (Len(t) + 1 for the end).
IndexAt(t, offset) == CHOOSE i \in 1..(Len(t) + 1) : ByteOffset(t, i) = offset

\* The pattern occurs in t at character i.
StartsWith(t, i, pattern) ==
    /\ i + Len(pattern) - 1 <= Len(t)
    /\ SubSeq(t, i, i + Len(pattern) - 1) = pattern

\* String::replace_range over characters first..last.
replace_range(t, first, last_, with) ==
    SubSeq(t, 1, first - 1) \o with \o SubSeq(t, last_ + 1, Len(t))

\* HORIZONTAL_ELLIPSIS without the character class that ends the pattern.
HORIZONTAL_ELLIPSIS_AnyFollower(t, p) ==
    LET lead  == p <= Len(t) /\ t[p] # "."
        first == IF lead THEN p + 1 ELSE p
        len   == IF StartsWith(t, first, <<".", ".", ".">>) THEN 3
                 ELSE IF StartsWith(t, first, <<".", " ", ".", " ", ".">>) THEN 5
                 ELSE 0
    IN  [found |-> (lead \/ p = 1) /\ len > 0,
         start |-> first, end |-> first + len - 1]

\* HORIZONTAL_ELLIPSIS: the match of
\*   (?:^|[^\.])(?<repl>(\.\.|\. \. )\.)(?:[^\.]|$)
\* that starts at character p, with the span of group "repl".
HORIZONTAL_ELLIPSIS(t, p) ==
    LET lead  == p <= Len(t) /\ t[p] # "."
        first == IF lead THEN p + 1 ELSE p
        len   == IF StartsWith(t, first, <<".", ".", ".">>) THEN 3
                 ELSE IF StartsWith(t, first, <<".", " ", ".", " ", ".">>) THEN 5
                 ELSE 0
    IN  [found |-> /\ lead \/ p = 1
                   /\ len > 0
                   /\ first + len > Len(t) \/ t[first + len] # ".",
         start |-> first, end |-> first + len - 1]

Min(S) == CHOOSE x \in S : \A y \in S : x <= y

\* Replacer::replace, RegexReplace with HORIZONTAL_ELLIPSIS: the loop from
\* byte `offset` on.
RECURSIVE RegexReplace(_, _)
RegexReplace(t, offset) ==
    LET starts == {p \in IndexAt(t, offset)..Len(t) : HORIZONTAL_ELLIPSIS(t, p).found}
    IN  IF starts = {} THEN t
        ELSE LET mtch == HORIZONTAL_ELLIPSIS(t, Min(starts))
             IN  RegexReplace(replace_range(t, mtch.start, mtch.end, <<ELLIPSIS>>),
                              ByteOffset(t, mtch.start) + StrLen(<<ELLIPSIS>>))

\* The leftmost match of  open(.*?)close : where it starts, and where the
\* nearest `close` after it starts with no line feed in between.
SurroundEnds(t, p, open, close) ==
    {q \in (p + Len(open))..Len(t) :
        /\ StartsWith(t, q, close)
        /\ \A i \in (p + Len(open))..(q - 1) : t[i] # "\n"}
SurroundStarts(t, open, close) ==
    {p \in 1..Len(t) : StartsWith(t, p, open) /\ SurroundEnds(t, p, open, close) # {}}

\* Replacer::replace, RegexSurround: the loop.
RECURSIVE RegexSurround(_, _, _, _, _)
RegexSurround(t, open, close, begin, end) ==
    IF SurroundStarts(t, open, close) = {} THEN t
    ELSE LET p == Min(SurroundStarts(t, open, close))
             q == Min(SurroundEnds(t, p, open, close))
             buffer == <<begin>> \o SubSeq(t, p + Len(open), q - 1) \o <<end>>
         IN  RegexSurround(replace_range(t, p, q + Len(close) - 1, buffer),
                           open, close, begin, end)

\* typography::substitute
substitute(t) ==
    LET double == RegexSurround(t, <<GRAVE_ACCENT, GRAVE_ACCENT>>, <<"'", "'">>,
                                LEFT_DOUBLE_QUOTE, RIGHT_DOUBLE_QUOTE)
        low    == RegexSurround(double, <<",", ",">>, <<"'", "'">>,
                                LOW_DOUBLE_QUOTE, RIGHT_DOUBLE_QUOTE)
        single == RegexSurround(low, <<GRAVE_ACCENT>>, <<"'">>,
                                LEFT_SINGLE_QUOTE, RIGHT_SINGLE_QUOTE)
    IN  RegexReplace(single, 0)

TextsOver(alphabet, n) == UNION {[1..k -> alphabet] : k \in 0..n}

DotAlphabet == {".", " ", "a"}
QuoteAlphabet == {GRAVE_ACCENT, "'", ",", "a", "\n"}

TypoTexts ==
    TextsOver({".", " "}, MaxDotsLen) \cup TextsOver(DotAlphabet, MaxTextLen)
        \cup TextsOver(QuoteAlphabet, MaxQuoteLen)
        \cup TextsOver({".", "u3042", "u00e9"}, MaxWideLen)

\* The caller holds any of the texts.
InitTypo ==
    /\ revisions = <<>>
    /\ outdated = <<>>
    /\ last = NoRequest
    /\ tasks = [p \in Procs |-> Idle]
    /\ users = {}
    /\ sessions = {}
    /\ verified = <<>>
    /\ text \in TypoTexts
    /\ cursor = NoCursor

Substitute ==
    /\ last' = [op |-> "substitute", input |-> text, previous |-> NoRevision,
                fault |-> "none", result |-> Ok(substitute(text))]
    /\ text' = substitute(text)
    /\ UNCHANGED <<revisions, outdated, tasks, users, sessions, verified, cursor>>

NextTypo ==
    \/ Substitute

SpecTypo == InitTypo /\ [][NextTypo]_vars

\* ---------------------------------------------------------------------------
\* typography::substitute, one iteration of a replacer's loop at a time.

\* The replacers in the order substitute runs them.
Replacers == <<"DOUBLE_QUOTES", "LOW_DOUBLE_QUOTES", "SINGLE_QUOTES",
               "HORIZONTAL_ELLIPSIS">>

\* What substitute does after a replacer's loop has ended.
NextReplacer(name) ==
    IF \E i \in 1..(Len(Replacers) - 1) : Replacers[i] = name
    THEN [replacer |-> Replacers[(CHOOSE i \in 1..Len(Replacers) : Replacers[i] = name) + 1],
          offset |-> 0]
    ELSE [replacer |-> "done", offset |-> 0]

\* The regex and the strings of a RegexSurround replacer.
Surround(name) ==
    CASE name = "DOUBLE_QUOTES" ->
            [open |-> <<GRAVE_ACCENT, GRAVE_ACCENT>>, close |-> <<"'", "'">>,
             begin |-> LEFT_DOUBLE_QUOTE, end |-> RIGHT_DOUBLE_QUOTE]
      [] name = "LOW_DOUBLE_QUOTES" ->
            [open |-> <<",", ",">>, close |-> <<"'", "'">>,
             begin |-> LOW_DOUBLE_QUOTE, end |-> RIGHT_DOUBLE_QUOTE]
      [] name = "SINGLE_QUOTES" ->
            [open |-> <<GRAVE_ACCENT>>, close |-> <<"'">>,
             begin |-> LEFT_SINGLE_QUOTE, end |-> RIGHT_SINGLE_QUOTE]

\* An iteration of the RegexSurround loop that writes the match back with
\* the delimiters it was found with.
SurroundIteration_KeepsDelimiters(t, open, close, begin, end) ==
    IF SurroundStarts(t, open, close) = {} THEN [matched |-> FALSE, text |-> t]
    ELSE LET p == Min(SurroundStarts(t, open, close))
             q == Min(SurroundEnds(t, p, open, close))
             buffer == open \o SubSeq(t, p + Len(open), q - 1) \o close
         IN  [matched |-> TRUE,
              text |-> replace_range(t, p, q + Len(close) - 1, buffer)]

\* Replacer::replace, RegexSurround: one evaluation of the loop condition
\* and, on a match, of the loop body.
SurroundIteration(t, open, close, begin, end) ==
    IF SurroundStarts(t, open, close) = {} THEN [matched |-> FALSE, text |-> t]
    ELSE LET p == Min(SurroundStarts(t, open, close))
             q == Min(SurroundEnds(t, p, open, close))
             buffer == <<begin>> \o SubSeq(t, p + Len(open), q - 1) \o <<end>>
         IN  [matched |-> TRUE,
              text |-> replace_range(t, p, q + Len(close) - 1, buffer)]

\* Replacer::replace, RegexReplace with HORIZONTAL_ELLIPSIS: one evaluation
\* of the loop condition and, on a match, of the loop body.
ReplaceIteration(t, offset) ==
    LET starts == {p \in IndexAt(t, offset)..Len(t) : HORIZONTAL_ELLIPSIS(t, p).found}
    IN  IF starts = {} THEN [matched |-> FALSE, text |-> t, offset |-> offset]
        ELSE LET mtch == HORIZONTAL_ELLIPSIS(t, Min(starts))
             IN  [matched |-> TRUE,
                  text |-> replace_range(t, mtch.start, mtch.end, <<ELLIPSIS>>),
                  offset |-> ByteOffset(t, mtch.start) + StrLen(<<ELLIPSIS>>)]

StepTexts ==
    TextsOver({GRAVE_ACCENT, "'", ",", "a"}, MaxStepLen) \cup TextsOver({".", " "}, MaxTextLen)

\* substitute has been called on any of the texts.
InitSteps ==
    /\ revisions = <<>>
    /\ outdated = <<>>
    /\ tasks = [p \in Procs |-> Idle]
    /\ users = {}
    /\ sessions = {}
    /\ verified = <<>>
    /\ text \in StepTexts
    /\ last = [op |-> "substitute", input |-> text, previous |-> NoRevision,
               fault |-> "none", result |-> OkNone]
    /\ cursor = [replacer |-> Replacers[1], offset |-> 0]

SurroundStep ==
    /\ cursor.replacer \in {"DOUBLE_QUOTES", "LOW_DOUBLE_QUOTES", "SINGLE_QUOTES"}
    /\ LET regex == Surround(cursor.replacer)
           r == SurroundIteration(text, regex.open, regex.close,
                                  regex.begin, regex.end)
       IN  /\ text' = r.text
           /\ cursor' = IF r.matched THEN cursor ELSE NextReplacer(cursor.replacer)
    /\ UNCHANGED <<revisions, outdated, last, tasks, users, sessions, verified>>

ReplaceStep ==
    /\ cursor.replacer = "HORIZONTAL_ELLIPSIS"
    /\ LET r == ReplaceIteration(text, cursor.offset)
       IN  /\ text' = r.text
           /\ cursor' = IF r.matched THEN [cursor EXCEPT !.offset = r.offset]
                        ELSE NextReplacer(cursor.replacer)
    /\ UNCHANGED <<revisions, outdated, last, tasks, users, sessions, verified>>

NextSteps ==
    \/ SurroundStep
    \/ ReplaceStep

\* substitute runs on one thread with nothing to wait for: an iteration
\* that can be taken is taken.
SpecSteps == InitSteps /\ [][NextSteps]_vars /\ WF_vars(NextSteps)

\* ---------------------------------------------------------------------------
\* The specification of two files: each created and deleted by a caller
\* that honours the lifecycle, and redaction requests with any identifiers.

TwoCreateFirst ==
    /\ Len(revisions) < MaxTwoRevs
    /\ \E input \in {[i EXCEPT !.file_id = f] : i \in LifeFirstInputs, f \in PrevFiles} :
        /\ \A r \in Rows(revisions) : r.file_id # input.file_id
        /\ Serve("create_first", input, NoRevision, "none",
                 create_first(DB, input, "none"))
    /\ UNCHANGED tasks

TwoCreateTombstone ==
    /\ Len(revisions) < MaxTwoRevs
    /\ \E site_id \in Sites, file_id \in PrevFiles, user_id \in Users,
          comments \in Comments :
        /\ ~NonExistent(revisions, site_id, file_id)
        /\ LET previous == TrueLatest(revisions, site_id, file_id)
               input == TombstoneInput(previous, user_id, comments)
           IN  /\ Live(previous)
               /\ \E r \in create_tombstone(DB, input, previous, "none") :
                        Serve("create_tombstone", input, previous, "none", r)
    /\ UNCHANGED tasks

TwoUpdateGetLatest == \E p \in Redactors : UpdateGetLatestOn(p, PrevFiles)

NextTwo ==
    \/ TwoCreateFirst
    \/ TwoCreateTombstone
    \/ TwoUpdateGetLatest
    \/ UpdateWrite

SpecTwo == Init /\ [][NextTwo]_vars

\* ---------------------------------------------------------------------------
\* The concurrent specification: each request reads the latest record of
\* the resource in one step and runs its transition in a later one, and
\* nothing in the service keeps the requests of one resource apart.

ConcCreateFirst == CreateFirstOn(MaxRevs, LifeFirstInputs, {"none"})

ReadLatest(p) ==
    /\ tasks[p].pc = "idle"
    /\ Len(revisions) < MaxRevs
    /\ \E site_id \in Sites, file_id \in Files :
        /\ ~NonExistent(revisions, site_id, file_id)
        /\ tasks' = [tasks EXCEPT ![p] =
                        [pc |-> "ready",
                         previous |-> TrueLatest(revisions, site_id, file_id),
                         input |-> <<>>]]
    /\ UNCHANGED <<revisions, outdated, last, users, sessions, verified, text, cursor>>

RunTombstone(p) ==
    /\ tasks[p].pc = "ready"
    /\ Live(tasks[p].previous)
    /\ \E user_id \in Users, comments \in Comments :
        LET previous == tasks[p].previous
            input == TombstoneInput(previous, user_id, comments)
        IN  \E r \in create_tombstone(DB, input, previous, "none") :
                  Serve("create_tombstone", input, previous, "none", r)
    /\ tasks' = [tasks EXCEPT ![p] = Idle]

RunResurrection(p) ==
    /\ tasks[p].pc = "ready"
    /\ Tombstoned(tasks[p].previous)
    /\ \E user_id \in Users, comments \in Comments, new_page_id \in Pages,
          new_name \in GoodNames :
        LET previous == tasks[p].previous
            input == ResurrectionInput(previous, user_id, comments,
                                       new_page_id, new_name)
        IN  \E r \in create_resurrection(DB, input, previous, "none") :
                  Serve("create_resurrection", input, previous, "none", r)
    /\ tasks' = [tasks EXCEPT ![p] = Idle]

NextConc ==
    \/ ConcCreateFirst
    \/ \E p \in Procs : ReadLatest(p)
    \/ \E p \in Procs : RunTombstone(p)
    \/ \E p \in Procs : RunResurrection(p)

SpecConc == Init /\ [][NextConc]_vars

\* ---------------------------------------------------------------------------
\* Helpers of the properties

SetOf(seq) == {seq[i] : i \in 1..Len(seq)}

\* The revision numbers stored for a resource, in append order.
StoredNumbers(revs, site_id, file_id) ==
    LET rows == SelectSeq(revs, LAMBDA r : r.site_id = site_id /\ r.file_id = file_id)
    IN  [i \in 1..Len(rows) |-> rows[i].revision_number]

\* The row is the only one of its resource with the greatest revision number.
StrictlyHighest(revs, row) ==
    \A o \in ResourceRows(revs, row.site_id, row.file_id) :
        o.revision_id # row.revision_id => o.revision_number < row.revision_number

LastOk(op) == last.op = op /\ last.result.status = "Ok"

\* The row a successful revision-creating request reports as appended.
Appended == revisions[last.result.out.file_revision_id]

\* ---------------------------------------------------------------------------
\* C1. With requests served one at a time, each given the latest record of
\* its resource, the revision numbers stored for a resource are consecutive
\* in append order, as the sequence 1..N is: no gap, no duplicate, never
\* decreasing.
C1_NumbersConsecutive ==
    \A site_id \in Sites, file_id \in Files :
        LET ns == StoredNumbers(revisions, site_id, file_id)
        IN  \A i \in 1..(Len(ns) - 1) : ns[i + 1] = ns[i] + 1

\* C2. After a successful create_first on a resource with no
\* revisions, latest returns a Create record numbered 1 whose changes are
\* the four field groups page, name, blob, licensing.
C2_FirstIsNumberOne ==
    LastOk("create_first") =>
        LET found == get_latest(DB, last.input.site_id, last.input.page_id,
                                last.input.file_id)
        IN  /\ found # {}
            /\ \A r \in found :
                /\ r.revision_type = "Create"
                /\ r.revision_number = 1
                /\ SetOf(r.changes) = {"page", "name", "blob", "licensing"}

\* C3. A redact request on the revision with the highest revision number of
\* its resource never succeeds: it fails with CannotHideLatestRevision.
C3_RedactOfLatestFails ==
    (last.op = "update" /\ last.input.revision_id \in 1..Len(revisions)
        /\ StrictlyHighest(revisions, revisions[last.input.revision_id]))
    => /\ last.result.status = "Err"
       /\ last.result.error \in {"CannotHideLatestRevision", "FileRevisionNotFound"}

\* C4. The revision with the highest revision number of a resource has an
\* empty hidden list.
C4_LatestNeverHidden ==
    \A r \in Rows(revisions) :
        StrictlyHighest(revisions, r) => r.hidden = <<>>

\* C5. No two revisions stored for a resource by concurrent delete and
\* undelete requests have the same revision number.
C5_NoDuplicateNumber ==
    \A a \in Rows(revisions), b \in Rows(revisions) :
        (a.site_id = b.site_id /\ a.file_id = b.file_id
            /\ a.revision_number = b.revision_number)
        => a.revision_id = b.revision_id

\* What a partial update provides that differs from the previous snapshot,
\* per field group.
NewPage(body, previous) ==
    IsSet(body.page_id) /\ ValueOf(body.page_id) # previous.page_id
NewName(body, previous) ==
    IsSet(body.name) /\ ValueOf(body.name) # previous.name
NewBlob(body, previous) ==
    IsSet(body.blob) /\
        ValueOf(body.blob) # [s3_hash |-> previous.s3_hash,
                              size_hint |-> previous.size_hint,
                              mime_hint |-> previous.mime_hint]
NewLicensing(body, previous) ==
    IsSet(body.licensing) /\ ValueOf(body.licensing) # previous.licensing

NothingNew(body, previous) ==
    /\ ~NewPage(body, previous)
    /\ ~NewName(body, previous)
    /\ ~NewBlob(body, previous)
    /\ ~NewLicensing(body, previous)

\* C6. An update whose every provided field is Unset or equal to the
\* previous snapshot's value returns Ok(None) and leaves the table and the
\* outdater's log as they were, also when the slug resolver would fail.
C6_NoOpUpdate ==
    [][(last'.op = "create" /\ NothingNew(last'.input.body, last'.previous))
        => /\ last'.result = OkNone
           /\ revisions' = revisions
           /\ outdated' = outdated]_vars

C6_Witness ==
    /\ last.op = "create"
    /\ NothingNew(last.input.body, last.previous)
    /\ IsSet(last.input.body.name)
    /\ IsSet(last.input.body.blob)
    /\ last.fault = "slug"
    /\ last.result = OkNone

\* C7. The Update revision appended by create lists in `changes` exactly the
\* field groups that were provided with a value differing from the previous
\* one (blob: any of hash, size, mime), each once, and stores the provided
\* value for those groups and the previous value for the others.
C7_ChangesAreTheDiff ==
    LastOk("create") =>
        LET row == Appended
            prev == last.previous
            body == last.input.body
        IN  /\ row.revision_type = "Update"
            /\ SetOf(row.changes) =
                  (IF NewPage(body, prev) THEN {"page"} ELSE {})
                  \cup (IF NewName(body, prev) THEN {"name"} ELSE {})
                  \cup (IF NewBlob(body, prev) THEN {"blob"} ELSE {})
                  \cup (IF NewLicensing(body, prev) THEN {"licensing"} ELSE {})
            /\ Len(row.changes) = Cardinality(SetOf(row.changes))
            /\ row.page_id = IF NewPage(body, prev)
                             THEN ValueOf(body.page_id) ELSE prev.page_id
            /\ row.name = IF NewName(body, prev)
                          THEN ValueOf(body.name) ELSE prev.name
            /\ [s3_hash |-> row.s3_hash, size_hint |-> row.size_hint,
                mime_hint |-> row.mime_hint]
                 = IF NewBlob(body, prev) THEN ValueOf(body.blob)
                   ELSE [s3_hash |-> prev.s3_hash, size_hint |-> prev.size_hint,
                         mime_hint |-> prev.mime_hint]
            /\ row.licensing = IF NewLicensing(body, prev)
                               THEN ValueOf(body.licensing) ELSE prev.licensing

C7_Witness ==
    /\ LastOk("create")
    /\ Appended.changes = <<"blob">>
    /\ Appended.s3_hash = last.previous.s3_hash
    /\ Appended.mime_hint # last.previous.mime_hint
    /\ IsSet(last.input.body.name)
    /\ ~IsSet(last.input.body.licensing)

\* C8. The revision appended by create_tombstone is a Delete revision, its
\* number is the previous record's plus one, its changes are empty, and its
\* name, hash, size hint, mime hint and licensing are the previous record's.
C8_TombstoneCarriesSnapshot ==
    LastOk("create_tombstone") =>
        LET row == Appended
            prev == last.previous
        IN  /\ row.revision_type = "Delete"
            /\ row.revision_number = prev.revision_number + 1
            /\ row.changes = <<>>
            /\ row.name = prev.name
            /\ row.s3_hash = prev.s3_hash
            /\ row.size_hint = prev.size_hint
            /\ row.mime_hint = prev.mime_hint
            /\ row.licensing = prev.licensing

C8_Witness ==
    /\ LastOk("create_tombstone")
    /\ last.previous.revision_type = "Update"
    /\ last.previous.name = <<"b", ".", "p", "n", "g">>
    /\ Appended.revision_id = Len(revisions)

\* C9. The revision appended by create_resurrection is an Undelete revision,
\* its number is the previous record's plus one, its hash, size hint, mime
\* hint and licensing are the previous record's, and its changes hold
\* "page" iff the new page differs from the old one, "name" iff the new name
\* differs from the old one, and nothing else.
C9_ResurrectionChanges ==
    LastOk("create_resurrection") =>
        LET row == Appended
            prev == last.previous
        IN  /\ row.revision_type = "Undelete"
            /\ row.revision_number = prev.revision_number + 1
            /\ row.s3_hash = prev.s3_hash
            /\ row.size_hint = prev.size_hint
            /\ row.mime_hint = prev.mime_hint
            /\ row.licensing = prev.licensing
            /\ row.page_id = last.input.new_page_id
            /\ row.name = last.input.new_name
            /\ ("page" \in SetOf(row.changes)) <=> (last.input.new_page_id # prev.page_id)
            /\ ("name" \in SetOf(row.changes)) <=> (last.input.new_name # prev.name)
            /\ SetOf(row.changes) \subseteq {"page", "name"}

C9_Witness ==
    /\ LastOk("create_resurrection")
    /\ Appended.changes = <<"page">>
    /\ Appended.page_id # last.previous.page_id

\* C10. A transition that fails at the slug resolver, the outdater or the
\* insert returns that error and leaves neither a new revision nor a new
\* outdater call; a transition that succeeds leaves one of each.
Transitions == {"create_first", "create", "create_tombstone", "create_resurrection"}
ValidationErrors == {"FileNameEmpty", "FileNameTooLong", "FileMimeEmpty"}
FaultError == ("slug" :> "PageNotFound") @@ ("outdate" :> "Outdate")
              @@ ("insert" :> "Database")

C10_AppendAndOutdateAtomic ==
    [][last'.op \in Transitions =>
        /\ last'.result.status = "Ok" =>
              /\ last'.fault = "none"
              /\ revisions' = Append(revisions, revisions'[Len(revisions')])
              /\ Len(outdated') = Len(outdated) + 1
        /\ last'.result.status # "Ok" =>
              /\ revisions' = revisions
              /\ outdated' = outdated
        /\ (last'.result.status = "Err"
                /\ last'.result.error \notin ValidationErrors) =>
              /\ last'.fault # "none"
              /\ last'.result.error = FaultError[last'.fault]]_vars

C10_Witness ==
    /\ last.op = "create_tombstone"
    /\ last.fault = "insert"
    /\ last.result = Err("Database")
    /\ Len(revisions) = 1
    /\ Len(outdated) = 1

\* ---------------------------------------------------------------------------
\* The snapshot an update merges from the previous record and its body.
MergedName(body, previous) ==
    IF IsSet(body.name) THEN ValueOf(body.name) ELSE previous.name
MergedMime(body, previous) ==
    IF IsSet(body.blob) THEN ValueOf(body.blob).mime_hint ELSE previous.mime_hint

\* C11. An update with a non-empty diff whose merged snapshot has an empty
\* name, a name of 256 bytes or more, or an empty mime hint returns
\* FileNameEmpty, FileNameTooLong or FileMimeEmpty (the first that applies),
\* whatever the collaborators would do, and leaves the table and the
\* outdater's log as they were.
C11_ValidationFirst ==
    [][(last'.op = "create" /\ ~NothingNew(last'.input.body, last'.previous)) =>
        LET name == MergedName(last'.input.body, last'.previous)
            mime == MergedMime(last'.input.body, last'.previous)
            bad  == name = <<>> \/ StrLen(name) >= 256 \/ mime = ""
        IN  bad =>
              /\ last'.result.status = "Err"
              /\ last'.result.error =
                    IF name = <<>> THEN "FileNameEmpty"
                    ELSE IF StrLen(name) >= 256 THEN "FileNameTooLong"
                    ELSE "FileMimeEmpty"
              /\ revisions' = revisions
              /\ outdated' = outdated]_vars

C11_Witness ==
    /\ last.op = "create"
    /\ last.fault = "insert"
    /\ IsSet(last.input.body.name)
    /\ ValueOf(last.input.body.name) = WideName
    /\ last.result = Err("FileNameTooLong")
    /\ Len(revisions) = 1

\* ---------------------------------------------------------------------------
\* The methods that take the `previous` record.
TakesPrevious == {"create", "create_tombstone", "create_resurrection"}

\* C12 as stated. Every method taking `previous` panics, without calling the
\* outdater or inserting, whenever the site, the file or the page of
\* `previous` differs from the request's.
C12_AnyMismatchPanics ==
    [][(/\ last'.op \in TakesPrevious
        /\ \/ last'.previous.site_id # last'.input.site_id
           \/ last'.previous.file_id # last'.input.file_id
           \/ last'.previous.page_id # last'.input.page_id) =>
            /\ last'.result.status = "Panic"
            /\ revisions' = revisions
            /\ outdated' = outdated]_vars

\* C12, amended. Every method taking `previous` panics exactly when the file
\* or the page of `previous` differs from the request's, and then neither
\* calls the outdater nor inserts; the site of `previous` is not compared.
C12_FileOrPageMismatchPanics ==
    [][last'.op \in TakesPrevious =>
        /\ last'.result.status = "Panic" <=>
              \/ last'.previous.file_id # last'.input.file_id
              \/ last'.previous.page_id # last'.input.page_id
        /\ last'.result.status = "Panic" =>
              /\ revisions' = revisions
              /\ outdated' = outdated]_vars

C12_Witness ==
    /\ last.op = "create_resurrection"
    /\ last.previous.file_id = last.input.file_id
    /\ last.previous.page_id # last.input.page_id
    /\ last.previous.site_id = last.input.site_id
    /\ last.result.status = "Panic"
    /\ Len(revisions) = 1
    /\ outdated = <<[kind |-> "displace", site_id |-> 1, page_id |-> 10,
                     slug |-> "page-ten"]>>

\* ---------------------------------------------------------------------------
\* C13. The table is append-only: no request removes a row or changes a
\* field of a stored row other than `hidden`, and `hidden` of a stored row
\* changes only in a step of update (the redaction).
C13_AppendOnly ==
    [][/\ Len(revisions') >= Len(revisions)
       /\ \A i \in 1..Len(revisions) :
            /\ [revisions'[i] EXCEPT !.hidden = revisions[i].hidden] = revisions[i]
            /\ revisions'[i].hidden # revisions[i].hidden => last'.op = "update"]_vars

C13_Witness ==
    /\ LastOk("update")
    /\ Len(revisions) = 3
    /\ revisions[1].hidden = <<"name">>
    /\ last.input.revision_id = 1

\* ---------------------------------------------------------------------------
\* C14 as stated. A revision created from `previous` has the file of
\* `previous`, and has a page other than that of `previous` only if it is an
\* Undelete.
C14_PageMovesOnlyOnUndelete ==
    (last.op \in TakesPrevious /\ last.result.status = "Ok") =>
        /\ Appended.file_id = last.previous.file_id
        /\ Appended.page_id # last.previous.page_id =>
              Appended.revision_type = "Undelete"

\* C14, amended. A revision created from `previous` has the file of
\* `previous`; it has a page other than that of `previous` only if it is an
\* Undelete or an Update that lists "page" in its changes; a Delete has the
\* page of `previous`.
C14_PageMovesOnUndeleteOrUpdate ==
    (last.op \in TakesPrevious /\ last.result.status = "Ok") =>
        /\ Appended.file_id = last.previous.file_id
        /\ Appended.page_id # last.previous.page_id =>
              \/ Appended.revision_type = "Undelete"
              \/ /\ Appended.revision_type = "Update"
                 /\ "page" \in SetOf(Appended.changes)
        /\ Appended.revision_type = "Delete" =>
              Appended.page_id = last.previous.page_id

C14_Witness ==
    /\ LastOk("create")
    /\ Appended.revision_type = "Update"
    /\ Appended.page_id = 11
    /\ last.previous.page_id = 10
    /\ Appended.file_id = 6

\* ---------------------------------------------------------------------------
\* C15. Each successful revision-creating request calls the outdater exactly
\* once: create_first as process_page_displace on the page of the file,
\* create and create_tombstone as process_page_edit on the page of the
\* revision, create_resurrection as process_page_edit on new_page_id; each
\* with the slug of that page.
C15_OutdatedOnce ==
    [][(last'.op \in Transitions /\ last'.result.status = "Ok") =>
        LET row  == revisions'[Len(revisions')]
            page == IF last'.op = "create_resurrection"
                    THEN last'.input.new_page_id ELSE row.page_id
        IN  /\ row.page_id = page
            /\ last'.op \in {"create_first", "create_tombstone"} =>
                  page = last'.input.page_id
            /\ outdated' = Append(outdated,
                  [kind    |-> IF last'.op = "create_first" THEN "displace" ELSE "edit",
                   site_id |-> last'.input.site_id,
                   page_id |-> page,
                   slug    |-> PageSlugs[page]])]_vars

C15_Witness ==
    /\ LastOk("create_resurrection")
    /\ last.input.new_page_id # last.input.page_id
    /\ Len(outdated) = 3
    /\ outdated[1].kind = "displace"
    /\ outdated[3] = [kind |-> "edit", site_id |-> 1,
                      page_id |-> last.input.new_page_id,
                      slug |-> PageSlugs[last.input.new_page_id]]

\* ---------------------------------------------------------------------------
\* The pages that hold a record of the resource, and the page the resource
\* is on now.
PagesOf(revs, site_id, file_id) ==
    {r.page_id : r \in ResourceRows(revs, site_id, file_id)}
CurrentPage(revs, site_id, file_id) == TrueLatest(revs, site_id, file_id).page_id

\* C16. get_latest, asked for a file and a page that holds records of it,
\* returns a record with the greatest revision_number among all the records
\* of the file; asked for a file without records, it returns
\* FileRevisionNotFound.
C16_LatestIsHighest ==
    last.op = "get_latest" =>
        LET rows == ResourceRows(revisions, last.input.site_id, last.input.file_id)
        IN  /\ rows = {} => last.result = Err("FileRevisionNotFound")
            /\ last.input.page_id \in PagesOf(revisions, last.input.site_id,
                                              last.input.file_id) =>
                  /\ last.result.status = "Ok"
                  /\ \A o \in rows :
                        o.revision_number <= last.result.out.revision_number

\* C17. count, asked for a file and the page it is on, returns the number of
\* records appended for the file; asked for a file without records, it
\* returns FileNotFound.
C17_CountIsTotal ==
    last.op = "count" =>
        \A site_id \in Sites :
            LET rows == ResourceRows(revisions, site_id, last.input.file_id)
            IN  /\ rows = {} => last.result = Err("FileNotFound")
                /\ (/\ rows # {}
                    /\ last.input.page_id =
                          CurrentPage(revisions, site_id, last.input.file_id)) =>
                      last.result = Ok(Cardinality(rows))

\* C18. get_range, asked for a file and the page it is on, returns at most
\* `limit` records in ascending order of revision_number, all at or below
\* the anchor for Before and at or above it for After; with anchor -1 and
\* direction Before it returns every record of the file (up to the limit).
C18_RangeSelects ==
    last.op = "get_range" =>
        \A site_id \in Sites :
            LET rows == ResourceRows(revisions, site_id, last.input.file_id)
                out == last.result.out
            IN  (/\ rows # {}
                 /\ last.input.page_id =
                       CurrentPage(revisions, site_id, last.input.file_id)) =>
                  /\ last.result.status = "Ok"
                  /\ Len(out) <= last.input.limit
                  /\ \A i, j \in 1..Len(out) : i < j =>
                        out[i].revision_number <= out[j].revision_number
                  /\ (last.input.revision_direction = "Before"
                        /\ last.input.revision_number >= 0) =>
                        \A i \in 1..Len(out) :
                            out[i].revision_number <= last.input.revision_number
                  /\ (last.input.revision_direction = "After"
                        /\ last.input.revision_number >= 0) =>
                        \A i \in 1..Len(out) :
                            out[i].revision_number >= last.input.revision_number
                  /\ (last.input.revision_direction = "Before"
                        /\ last.input.revision_number = -1
                        /\ last.input.limit >= Cardinality(rows)) =>
                        SetOf(out) = rows

\* ---------------------------------------------------------------------------
\* The users a name or email matches.
Matching(name_or_email) ==
    {u \in users : \/ u.name = name_or_email
                   \/ u.slug = name_or_email
                   \/ u.email = name_or_email}

\* C19. auth_password calls PasswordService::verify exactly once, on the
\* password of the request, whether or not a user matches; when none
\* matches the call is made on the dummy user's hash and the request fails;
\* every failure is InvalidAuthentication.
C19_VerifiesExactlyOnce ==
    last.op = "auth_password" =>
        /\ Len(verified) = 1
        /\ verified[1].password = last.input.password
        /\ Matching(last.input.name_or_email) = {} =>
              /\ verified[1].password_hash = DummyHash
              /\ last.result = Err("InvalidAuthentication")
        /\ last.result.status # "Ok" => last.result = Err("InvalidAuthentication")

\* ---------------------------------------------------------------------------
\* A group of three dots that no dot touches: contiguous, or spaced.
DotsAt(t, i) ==
    /\ StartsWith(t, i, <<".", ".", ".">>)
    /\ i = 1 \/ t[i - 1] # "."
    /\ i + 3 > Len(t) \/ t[i + 3] # "."
SpacedDotsAt(t, i) ==
    /\ StartsWith(t, i, <<".", " ", ".", " ", ".">>)
    /\ i = 1 \/ t[i - 1] # "."
    /\ i + 5 > Len(t) \/ t[i + 5] # "."

\* The text read from character i on, left to right, with every such group
\* written as one ellipsis and every other character copied.
RECURSIVE Ellipsized(_, _)
Ellipsized(t, i) ==
    IF i > Len(t) THEN <<>>
    ELSE IF DotsAt(t, i) THEN <<ELLIPSIS>> \o Ellipsized(t, i + 3)
    ELSE IF SpacedDotsAt(t, i) THEN <<ELLIPSIS>> \o Ellipsized(t, i + 5)
    ELSE <<t[i]>> \o Ellipsized(t, i + 1)

\* The lengths of the runs of four or more contiguous dots, in order.
RECURSIVE LongRuns(_, _)
LongRuns(t, run) ==
    IF t = <<>> THEN (IF run >= 4 THEN <<run>> ELSE <<>>)
    ELSE IF Head(t) = "." THEN LongRuns(Tail(t), run + 1)
    ELSE (IF run >= 4 THEN <<run>> ELSE <<>>) \o LongRuns(Tail(t), 0)

\* C20. On a text of dots, spaces and letters, substitute writes one
\* ellipsis for every contiguous "..." and every spaced ". . ." that no
\* other dot directly precedes or follows, group after group from the left,
\* copies every other character, and leaves the runs of four or more dots
\* as they are.
C20_EllipsisGroups ==
    (last.op = "substitute" /\ last.input \in Seq(DotAlphabet)) =>
        /\ last.result.out = Ellipsized(last.input, 1)
        /\ LongRuns(last.result.out, 0) = LongRuns(last.input, 0)
        /\ text = last.result.out

C20_Witness ==
    /\ last.op = "substitute"
    /\ last.input = <<".", ".", ".", " ", ".", " ", ".", " ", ".">>
    /\ text = <<ELLIPSIS, " ", ELLIPSIS>>

\* ---------------------------------------------------------------------------
\* The revision types stored for a resource, in append order.
StoredTypes(revs, site_id, file_id) ==
    LET rows == SelectSeq(revs, LAMBDA r : r.site_id = site_id /\ r.file_id = file_id)
    IN  [i \in 1..Len(rows) |-> rows[i].revision_type]

LifecycleOrder(ts) ==
    \A i \in 1..Len(ts) :
        /\ ts[i] = "Create" <=> i = 1
        /\ ts[i] = "Undelete" => (i > 1 /\ ts[i - 1] = "Delete")
        /\ ts[i] \in {"Update", "Delete"} =>
              (i > 1 /\ ts[i - 1] \in {"Create", "Update", "Undelete"})

\* C21. In the records stored for a resource, the first is a Create and no
\* later one is, every Undelete directly follows a Delete, and every Update
\* or Delete directly follows a Create, an Update or an Undelete.
C21_LifecycleOrder ==
    \A site_id \in Sites, file_id \in Files :
        LifecycleOrder(StoredTypes(revisions, site_id, file_id))

\* ---------------------------------------------------------------------------
\* C22. Every stored record has a non-empty name shorter than 256 bytes and
\* a non-empty mime hint.
C22_StoredRecordsValid ==
    \A r \in Rows(revisions) :
        /\ r.name # <<>>
        /\ StrLen(r.name) < 256
        /\ r.mime_hint # ""

\* ---------------------------------------------------------------------------
\* What the queries answer for a file, over every page and every range.
Answers(db, site_id, file_id) ==
    [latest |-> [p \in Pages |-> get_latest(db, site_id, p, file_id)],
     count  |-> [p \in Pages |-> count(db, p, file_id)],
     range  |-> [q \in [page_id : Pages, file_id : {file_id},
                        revision_number : RangeAnchors,
                        revision_direction : FetchDirection,
                        limit : RangeLimits] |-> get_range(db, q)]]

\* C23. A revision-creating request or a redaction for one file leaves the
\* stored records of every other file, and the answers of get_latest, count
\* and get_range for it, as they were.
C23_OtherFilesUntouched ==
    [][last'.op \in Transitions \cup {"update"} =>
        \A site_id \in Sites, file_id \in PrevFiles \ {last'.input.file_id} :
            /\ ResourceRows(revisions', site_id, file_id)
                  = ResourceRows(revisions, site_id, file_id)
            /\ Answers([revisions |-> revisions', outdated |-> outdated'],
                       site_id, file_id)
                  = Answers(DB, site_id, file_id)]_vars

\* C25. update changes `hidden` only of a record of the site, page and file
\* named in the request.
C25_RedactsNamedFileOnly ==
    [][last'.op = "update" =>
        \A i \in 1..Len(revisions) :
            revisions'[i].hidden # revisions[i].hidden =>
                /\ revisions[i].site_id = last'.input.site_id
                /\ revisions[i].page_id = last'.input.page_id
                /\ revisions[i].file_id = last'.input.file_id]_vars

\* ---------------------------------------------------------------------------
\* C24. The revision number that a successful create, create_tombstone or
\* create_resurrection returns is the one stored in the record it appended.
C24_ReturnedNumberIsStored ==
    (last.op \in TakesPrevious /\ last.result.status = "Ok") =>
        Appended.revision_number = last.result.out.file_revision_number

\* ---------------------------------------------------------------------------
\* The restricted sessions of a token whose user exists.
RestrictedSessions(session_token) ==
    {x \in sessions : /\ x.session_token = session_token
                      /\ x.restricted
                      /\ \E u \in users : u.user_id = x.user_id}

\* The verification call is the one the input asks for, and it passes.
TotpPassed(call, user, input) ==
    /\ call.service = "verify"
    /\ user.multi_factor_secret # None
    /\ call.code = CurrentTotp(user.multi_factor_secret[2])
RecoveryPassed(call, user, input) ==
    /\ call.service = "verify_recovery"
    /\ call.code = input.totp_or_code
    /\ call.code \in user.multi_factor_recovery_codes

\* C26. auth_mfa returns a user only if the token is that of a restricted
\* session, the user is the session's, and the one verification made has
\* passed: MfaService::verify when the input parses as an integer,
\* MfaService::verify_recovery otherwise. When the session lookup fails no
\* verification is made; when the verification fails no user is returned.
C26_MfaGate ==
    last.op = "auth_mfa" =>
        /\ RestrictedSessions(last.input.session_token) = {} =>
              /\ last.result.status = "Err"
              /\ verified = <<>>
        /\ RestrictedSessions(last.input.session_token) # {} =>
              /\ Len(verified) = 1
              /\ verified[1].service =
                    IF ParseU32(last.input.totp_or_code).ok
                    THEN "verify" ELSE "verify_recovery"
        /\ last.result.status = "Ok" <=>
              \E x \in RestrictedSessions(last.input.session_token) :
                  /\ last.result.out \in users
                  /\ last.result.out.user_id = x.user_id
                  /\ verified[1].user_id = x.user_id
                  /\ IF ParseU32(last.input.totp_or_code).ok
                     THEN TotpPassed(verified[1], last.result.out, last.input)
                     ELSE RecoveryPassed(verified[1], last.result.out, last.input)
        /\ last.result.status # "Ok" => last.result.status = "Err"

C26_Witness ==
    /\ last.op = "auth_mfa"
    /\ last.input = [session_token |-> "tok-b", totp_or_code |-> <<"7", "x">>]
    /\ last.result.status = "Ok"
    /\ last.result.out.user_id = 2
    /\ verified = <<[service |-> "verify_recovery", user_id |-> 2,
                     code |-> <<"7", "x">>]>>

\* ---------------------------------------------------------------------------
\* A text no replacer has a match in: no grave accent, no two commas in a
\* row, no two apostrophes in a row, no full stop.
Plain(t) ==
    /\ \A i \in 1..Len(t) : t[i] \notin {GRAVE_ACCENT, "."}
    /\ \A i \in 1..(Len(t) - 1) :
          /\ ~(t[i] = "," /\ t[i + 1] = ",")
          /\ ~(t[i] = "'" /\ t[i + 1] = "'")

\* substitute has returned.
Returned == cursor.replacer = "done"

\* What the stepped loops leave is what substitute computes.
StepsAgree == Returned => text = substitute(last.input)

\* C27. substitute returns on every text: each of the four loops ends; and
\* a text with no grave accent, no ",,", no "''" and no full stop is never
\* written to and is what substitute returns.
C27_Terminates ==
    /\ <>Returned
    /\ [](Plain(last.input) => text = last.input)

C27_Witness ==
    /\ Returned
    /\ last.input = <<GRAVE_ACCENT, "a", "'", GRAVE_ACCENT, "'">>
    /\ text = <<LEFT_SINGLE_QUOTE, "a", RIGHT_SINGLE_QUOTE,
                LEFT_SINGLE_QUOTE, RIGHT_SINGLE_QUOTE>>

====
